---- MODULE Spec2Model ----
(***************************************************************************)
(* A model of calculator.py: the CustomCalc pipeline (split_to_tokens,     *)
(* check_parentheses, infix_to_postfix, postfix_calc) and the read loop    *)
(* that drives it.                                                         *)
(*                                                                         *)
(* A Python string is a sequence of one-character strings; a token is such *)
(* a sequence too ('(' is <<"(">>).  A number is a record                  *)
(*   [n |-> numerator, d |-> denominator > 0, f |-> TRUE iff a float]      *)
(* in lowest terms.  Python's int is unbounded and is an Int here; a float *)
(* is kept as the exact rational it denotes, so IEEE rounding is not       *)
(* modelled (no formula below depends on rounding, and no input within the *)
(* bounds yields a float whose zero test differs from the exact one).      *)
(***************************************************************************)
EXTENDS Integers, Sequences, FiniteSets, TLC

VARIABLES
    stdin,              \* the lines input() has still to return
    pc,                 \* position of the module-level code / eval_math_expr
    s,                  \* the line read by input()                  (line 213)
    tokens,             \* eval_math_expr's local `tokens`           (line 202)
    postfix_expr,       \* eval_math_expr's local `postfix_expr`     (line 204)
    res,                \* eval_math_expr's local `res`              (line 205)
    exc,                \* the exception in flight, if any
    ran,                \* the stages the current call has started, in order
    ops_applied,        \* the math_operation calls postfix_calc made
    left_over,          \* operands left on postfix_calc's stack at return
    operators_priors,   \* cal.operators_priors                      (line 49)
    transcript          \* what the terminal shows: each line read and its outcome

vars == <<stdin, pc, s, tokens, postfix_expr, res, exc, ran, ops_applied,
          left_over, operators_priors, transcript>>

-----------------------------------------------------------------------------
(* Bounds of the model.                                                    *)

\* longest line over FullAlphabet
MaxLen == 4
\* longest line over ArithAlphabet
MaxArithLen == 5
\* longest line over DivAlphabet
MaxDivLen == 5
\* most lines of one session (SpecSession)
MaxLines == 3

-----------------------------------------------------------------------------
(* Characters.                                                             *)

DigitSeq == <<"0", "1", "2", "3", "4", "5", "6", "7", "8", "9">>

\* str.isdigit on one ASCII character
isdigit(c) == \E i \in 1..Len(DigitSeq) : DigitSeq[i] = c

\* the value int() gives one digit
DigitVal(c) == (CHOOSE i \in 1..Len(DigitSeq) : DigitSeq[i] = c) - 1

\* the value Python's None stands for in the priority table
None == "None"

\* CustomCalc.__init__: the priority table
InitialPriors ==
    [k \in {"(", ")", "+", "-", "*", "/", ":", "~"} |->
        CASE k = "(" -> 1
          [] k = ")" -> None
          [] k \in {"+", "-"} -> 2
          [] k \in {"*", "/", ":"} -> 3
          [] k = "~" -> 4]

-----------------------------------------------------------------------------
(* Numbers.                                                                *)

Abs(x) == IF x < 0 THEN -x ELSE x

RECURSIVE Gcd(_, _)
Gcd(a, b) == IF b = 0 THEN a ELSE Gcd(b, a % b)

\* the number n/d in lowest terms, d > 0
Num(n, d, f) ==
    LET g == Gcd(Abs(n), Abs(d))
        sg == IF d < 0 THEN -1 ELSE 1
    IN  [n |-> sg * (n \div g), d |-> sg * (d \div g), f |-> f]

IntNum(n) == [n |-> n, d |-> 1, f |-> FALSE]

RECURSIVE Pow10(_)
Pow10(k) == IF k = 0 THEN 1 ELSE 10 * Pow10(k - 1)

\* the value of a run of digits read in base ten ("" reads as 0)
RECURSIVE DigitsVal(_)
DigitsVal(str) ==
    IF str = <<>> THEN 0
    ELSE 10 * DigitsVal(SubSeq(str, 1, Len(str) - 1)) + DigitVal(str[Len(str)])

CountOf(c, str) == Cardinality({i \in 1..Len(str) : str[i] = c})

\* cast_number: float(number) when it holds a '.', int(number) otherwise.
\* float() parses digits, one optional '.', digits; anything else is a
\* ValueError.  A token starts with a digit and holds digits and '.' only.
cast_number(number) ==
    IF \E i \in 1..Len(number) : number[i] = "."
    THEN IF CountOf(".", number) = 1
         THEN LET p == CHOOSE i \in 1..Len(number) : number[i] = "."
                  ip == SubSeq(number, 1, p - 1)
                  fp == SubSeq(number, p + 1, Len(number))
              IN  [kind |-> "value",
                   val |-> Num(DigitsVal(ip) * Pow10(Len(fp)) + DigitsVal(fp),
                               Pow10(Len(fp)), TRUE)]
         ELSE [kind |-> "ValueError", val |-> IntNum(0)]
    ELSE [kind |-> "value", val |-> IntNum(DigitsVal(number))]

-----------------------------------------------------------------------------
(* The tokenizer.                                                          *)

\* get_number's loop with `dots <= 2` for `dots < 2`
RECURSIVE get_number_from_le(_, _, _, _)
get_number_from_le(math_str, pos, dots, num_str) ==
    IF pos > Len(math_str) THEN num_str
    ELSE LET c == math_str[pos] IN
         IF isdigit(c)
         THEN get_number_from_le(math_str, pos + 1, dots, Append(num_str, c))
         ELSE IF c = "." /\ dots <= 2
         THEN get_number_from_le(math_str, pos + 1, dots + 1, Append(num_str, c))
         ELSE num_str

\* get_number's loop from position pos on (1-based), with `dots` points and
\* num_str collected so far
RECURSIVE get_number_from(_, _, _, _)
get_number_from(math_str, pos, dots, num_str) ==
    IF pos > Len(math_str) THEN num_str
    ELSE LET c == math_str[pos] IN
         IF isdigit(c)
         THEN get_number_from(math_str, pos + 1, dots, Append(num_str, c))
         ELSE IF c = "." /\ dots < 2
         THEN get_number_from(math_str, pos + 1, dots + 1, Append(num_str, c))
         ELSE num_str

\* get_number(math_str, start), start being 1-based here
get_number(math_str, start) == get_number_from(math_str, start, 0, <<>>)

\* math_str.strip(' '): only the leading and trailing spaces go
RECURSIVE StripEnds(_)
StripEnds(math_str) ==
    IF math_str # <<>> /\ Head(math_str) = " " THEN StripEnds(Tail(math_str))
    ELSE IF math_str # <<>> /\ math_str[Len(math_str)] = " "
    THEN StripEnds(SubSeq(math_str, 1, Len(math_str) - 1))
    ELSE math_str

\* math_str.replace(' ', '')
StripSpaces(math_str) == SelectSeq(math_str, LAMBDA c : c # " ")

\* the condition widened to a '-' right after another operator as well
is_unary_minus_after_operator(math_str, cur_pos) ==
    math_str[cur_pos] = "-"
        /\ (cur_pos = 1 \/ (cur_pos > 1 /\ ~isdigit(math_str[cur_pos - 1])
                                        /\ math_str[cur_pos - 1] # ")"))

\* the condition of lines 102-103: `math_str[cur_pos] == '-' and (cur_pos == 0 or
\* (cur_pos > 0 and math_str[cur_pos - 1] == '('))`, cur_pos being 1-based here
is_unary_minus(math_str, cur_pos) ==
    math_str[cur_pos] = "-"
        /\ (cur_pos = 1 \/ (cur_pos > 1 /\ math_str[cur_pos - 1] = "("))

\* the while loop of split_to_tokens from cur_pos on (1-based)
RECURSIVE split_loop(_, _, _, _, _)
split_loop(math_str, priors, cur_pos, token_list, operators) ==
    IF cur_pos > Len(math_str)
    THEN IF operators = 0
         THEN [kind |-> "NothingToDoError", symbol |-> "", tokens |-> <<>>]
         ELSE [kind |-> "ok", symbol |-> "", tokens |-> token_list]
    ELSE LET c == math_str[cur_pos] IN
         IF isdigit(c)
         THEN LET num == get_number(math_str, cur_pos)
              IN  split_loop(math_str, priors, cur_pos + Len(num),
                             Append(token_list, num), operators)
         ELSE IF c \in DOMAIN priors
         THEN IF is_unary_minus(math_str, cur_pos)
              THEN split_loop(math_str, priors, cur_pos + 1,
                              Append(token_list, <<"~">>), operators)
              ELSE split_loop(math_str, priors, cur_pos + 1,
                              Append(token_list, <<c>>),
                              IF c \notin {"(", ")"} THEN operators + 1 ELSE operators)
         ELSE [kind |-> "UnexpectedInput", symbol |-> c, tokens |-> <<>>]

\* split_to_tokens(math_str), reading the table `priors`
split_to_tokens(math_str, priors) ==
    split_loop(StripSpaces(math_str), priors, 1, <<>>, 0)

-----------------------------------------------------------------------------
(* The validator.                                                          *)

\* int(token == c)
IntEq(token, c) == IF token = <<c>> THEN 1 ELSE 0

\* the for loop of check_parentheses over token_list[i..]
RECURSIVE check_loop(_, _, _, _)
check_loop(token_list, i, opened, closed) ==
    IF i > Len(token_list)
    THEN IF opened # closed THEN "ParenthesesError" ELSE "ok"
    ELSE IF opened < closed THEN "ParenthesesError"
    ELSE check_loop(token_list, i + 1, opened + IntEq(token_list[i], "("),
                    closed + IntEq(token_list[i], ")"))

\* check_parentheses(token_list): "ok", or the name of what it raises
check_parentheses(token_list) ==
    IF Len(token_list) < 2 THEN "IndexError"
    ELSE check_loop(token_list, 3,
                    IntEq(token_list[1], "(") + IntEq(token_list[2], "("),
                    IntEq(token_list[1], ")") + IntEq(token_list[2], ")"))

-----------------------------------------------------------------------------
(* The converter.                                                          *)

\* `top = stack.pop(); while top != '(' : output_list.append(top); top = stack.pop()`
RECURSIVE pop_to_paren(_, _)
pop_to_paren(stack, output_list) ==
    IF stack = <<>> THEN [kind |-> "IndexError", stack |-> stack, out |-> output_list]
    ELSE LET top == stack[Len(stack)]
             rest == SubSeq(stack, 1, Len(stack) - 1)
         IN  IF top = <<"(">>
             THEN [kind |-> "ok", stack |-> rest, out |-> output_list]
             ELSE pop_to_paren(rest, Append(output_list, top))

\* pop_higher with `>` for `>=`: equal precedence then groups right to left
RECURSIVE pop_higher_strict(_, _, _, _)
pop_higher_strict(stack, output_list, token, priors) ==
    IF Len(stack) > 0 /\ priors[stack[Len(stack)][1]] > priors[token[1]]
    THEN pop_higher_strict(SubSeq(stack, 1, Len(stack) - 1),
                           Append(output_list, stack[Len(stack)]), token, priors)
    ELSE [stack |-> stack, out |-> output_list]

\* `while len(stack) > 0 and priors[stack[-1]] >= priors[token]: output_list.append(stack.pop())`
RECURSIVE pop_higher(_, _, _, _)
pop_higher(stack, output_list, token, priors) ==
    IF Len(stack) > 0 /\ priors[stack[Len(stack)][1]] >= priors[token[1]]
    THEN pop_higher(SubSeq(stack, 1, Len(stack) - 1),
                    Append(output_list, stack[Len(stack)]), token, priors)
    ELSE [stack |-> stack, out |-> output_list]

\* `while len(stack) > 0: output_list.append(stack.pop())`
RECURSIVE pop_all(_, _)
pop_all(stack, output_list) ==
    IF stack = <<>> THEN output_list
    ELSE pop_all(SubSeq(stack, 1, Len(stack) - 1), Append(output_list, stack[Len(stack)]))

\* the for loop of infix_to_postfix over tokens[i..]
RECURSIVE infix_loop(_, _, _, _, _)
infix_loop(toks, priors, i, stack, output_list) ==
    IF i > Len(toks)
    THEN [kind |-> "ok", out |-> pop_all(stack, output_list)]
    ELSE LET token == toks[i] IN
         IF isdigit(token[1])
         THEN infix_loop(toks, priors, i + 1, stack, Append(output_list, token))
         ELSE IF token = <<"(">>
         THEN infix_loop(toks, priors, i + 1, Append(stack, token), output_list)
         ELSE IF token = <<")">>
         THEN LET r == pop_to_paren(stack, output_list)
              IN  IF r.kind = "ok"
                  THEN infix_loop(toks, priors, i + 1, r.stack, r.out)
                  ELSE [kind |-> r.kind, out |-> <<>>]
         ELSE LET r == pop_higher(stack, output_list, token, priors)
              IN  infix_loop(toks, priors, i + 1, Append(r.stack, token), r.out)

\* infix_to_postfix(tokens), reading the table `priors`
infix_to_postfix(toks, priors) == infix_loop(toks, priors, 1, <<>>, <<>>)

-----------------------------------------------------------------------------
(* The evaluator.                                                          *)

\* math_operation without its try/except: the ZeroDivisionError propagates
math_operation_uncaught(arg1, arg2, operator) ==
    LET f == arg1.f \/ arg2.f IN
    IF operator = <<"+">>
    THEN [kind |-> "value", val |-> Num(arg1.n * arg2.d + arg2.n * arg1.d, arg1.d * arg2.d, f)]
    ELSE IF operator = <<"-">> \/ operator = <<"~">>
    THEN [kind |-> "value", val |-> Num(arg1.n * arg2.d - arg2.n * arg1.d, arg1.d * arg2.d, f)]
    ELSE IF operator = <<":">> \/ operator = <<"/">>
    THEN IF arg2.n = 0
         THEN [kind |-> "ZeroDivisionError", val |-> IntNum(0)]
         ELSE [kind |-> "value", val |-> Num(arg1.n * arg2.d, arg1.d * arg2.n, TRUE)]
    ELSE [kind |-> "value", val |-> Num(arg1.n * arg2.n, arg1.d * arg2.d, f)]

\* math_operation(arg1, arg2, operator): the value returned, or SystemExit when
\* the ZeroDivisionError of arg1 / arg2 is turned into sys.exit(...)
math_operation(arg1, arg2, operator) ==
    LET f == arg1.f \/ arg2.f IN
    IF operator = <<"+">>
    THEN [kind |-> "value", val |-> Num(arg1.n * arg2.d + arg2.n * arg1.d, arg1.d * arg2.d, f)]
    ELSE IF operator = <<"-">> \/ operator = <<"~">>
    THEN [kind |-> "value", val |-> Num(arg1.n * arg2.d - arg2.n * arg1.d, arg1.d * arg2.d, f)]
    ELSE IF operator = <<":">> \/ operator = <<"/">>
    THEN IF arg2.n = 0
         THEN [kind |-> "SystemExit", val |-> IntNum(0)]
         ELSE [kind |-> "value", val |-> Num(arg1.n * arg2.d, arg1.d * arg2.n, TRUE)]
    ELSE [kind |-> "value", val |-> Num(arg1.n * arg2.n, arg1.d * arg2.d, f)]

\* what postfix_calc gives when it stops: the outcome, the value returned, the
\* math_operation calls made and the operands left behind on its stack
CalcEnd(kind, val, calls, left) ==
    [kind |-> kind, val |-> val, calls |-> calls, left |-> left]

\* the for loop of postfix_calc over postfix_list[i..], then `return stack.pop()`
RECURSIVE calc_loop(_, _, _, _)
calc_loop(postfix_list, i, stack, calls) ==
    IF i > Len(postfix_list)
    THEN IF stack = <<>>
         THEN CalcEnd("IndexError", IntNum(0), calls, 0)
         ELSE CalcEnd("value", stack[Len(stack)], calls, Len(stack) - 1)
    ELSE LET token == postfix_list[i] IN
         IF isdigit(token[1])
         THEN LET c == cast_number(token)
              IN  IF c.kind = "value"
                  THEN calc_loop(postfix_list, i + 1, Append(stack, c.val), calls)
                  ELSE CalcEnd(c.kind, IntNum(0), calls, Len(stack))
         ELSE IF token = <<"~">>
         THEN IF Len(stack) < 1
              THEN CalcEnd("IndexError", IntNum(0), calls, 0)
              ELSE LET arg2 == stack[Len(stack)]
                       arg1 == IntNum(0)
                       r == math_operation(arg1, arg2, token)
                       made == Append(calls, [op |-> token, arg1 |-> arg1, arg2 |-> arg2])
                   IN  IF r.kind = "value"
                       THEN calc_loop(postfix_list, i + 1,
                                      Append(SubSeq(stack, 1, Len(stack) - 1), r.val), made)
                       ELSE CalcEnd(r.kind, IntNum(0), made, Len(stack) - 1)
         ELSE IF Len(stack) < 2
              THEN CalcEnd("IndexError", IntNum(0), calls, 0)
              ELSE LET arg2 == stack[Len(stack)]
                       arg1 == stack[Len(stack) - 1]
                       r == math_operation(arg1, arg2, token)
                       made == Append(calls, [op |-> token, arg1 |-> arg1, arg2 |-> arg2])
                   IN  IF r.kind = "value"
                       THEN calc_loop(postfix_list, i + 1,
                                      Append(SubSeq(stack, 1, Len(stack) - 2), r.val), made)
                       ELSE CalcEnd(r.kind, IntNum(0), made, Len(stack) - 2)

\* postfix_calc(postfix_list)
postfix_calc(postfix_list) == calc_loop(postfix_list, 1, <<>>, <<>>)

-----------------------------------------------------------------------------
(* The lines a user may type.                                              *)

FullAlphabet == {"2", ".", "+", "-", "/", "(", ")", " ", "\t", "^"}
ArithAlphabet == {"2", "3", "+", "-", "*", "(", ")"}
DivAlphabet == {"1", "0", "/", "(", ")"}

\* every string over `alphabet` of at most n characters
Strings(alphabet, n) == UNION {[1..k -> alphabet] : k \in 0..n}

\* the expressions the specification and its examples name
Examples ==
    {<<"2", "+", "3", "*", "4">>,
     <<"(", "2", "+", "3", ")", "*", "4">>,
     <<"-", "5", "+", "3">>,
     <<"(", "-", "5", "+", "3", ")", "*", "2">>,
     <<"1", "0", "/", "2">>,
     <<"(", "2", "+", "3">>,
     <<"2", "+", "3", ")">>,
     <<"2", "^", "3">>,
     <<"4", "2">>,
     <<"5", "/", "0">>,
     <<"8", "-", "3", "-", "2">>,
     <<"-", "2", "*", "3">>,
     <<"2", "*", "-", "3">>,
     <<"-", "-", "5">>,
     <<"-", "5">>,
     <<"(", "-", "5", ")">>,
     <<")", "(", "1", "/", "0">>,
     <<"(", "1", "/", "0", ")", "+", "(">>,
     <<"1", ".", "5", "+", "1">>,
     <<"1", ".", ".", "2", "+", "1">>,
     <<"1", ".", "2", ".", "3", ".", "4", "+", "1">>,
     <<" ", "2", " ", "+", " ", "3", " ">>,
     <<"2", "*", "(", "3", "+", "4", ")">>,
     <<"2", "(", "3", ")", "+", "4">>,
     <<"q">>,
     <<"6", ":", "3">>,
     <<"6", ":", "0">>,
     <<"1", "/", "0", ".", "0">>,
     <<"~", "5", "+", "1", ".">>}

\* the lines of a session that evaluates expressions again
SessionInputs ==
    {<<"q">>,
     <<"2", "*", "3", "-", "1">>,
     <<"-", "2", "*", "3">>,
     <<"(", "2", "+", "3", ")", "*", "4">>,
     <<"5", "/", "0">>,
     <<"2", "+">>,
     <<"(", "2", "+", "3">>,
     <<"2", "^", "3">>}

Universe ==
    Strings(FullAlphabet, MaxLen) \cup Strings(ArithAlphabet, MaxArithLen)
        \cup Strings(DivAlphabet, MaxDivLen) \cup Examples

\* every sequence of 1..n lines of `lines`
Sessions(lines, n) == UNION {[1..k -> lines] : k \in 1..n}

-----------------------------------------------------------------------------
(* The read loop and eval_math_expr.                                       *)

NoExc == [kind |-> "none", symbol |-> ""]
NoRes == IntNum(0)

\* the exceptions of `except (EmptyInputError, ParenthesesError, UnexpectedInput,
\* NothingToDoError)`
TypedErrors == {"EmptyInputError", "ParenthesesError", "UnexpectedInput", "NothingToDoError"}

\* the exceptions `except Exception` catches: SystemExit derives from
\* BaseException, not from Exception
IsException(kind) == kind # "SystemExit"

\* one line of the terminal's transcript: the line read and what came of it
Shown(line, kind, val, symbol) ==
    [expr |-> line, kind |-> kind, val |-> val, symbol |-> symbol]

InitWith(lines) ==
    /\ stdin \in lines
    /\ pc = "prompt"
    /\ s = <<>>
    /\ tokens = <<>>
    /\ postfix_expr = <<>>
    /\ res = NoRes
    /\ exc = NoExc
    /\ ran = <<>>
    /\ ops_applied = <<>>
    /\ left_over = 0
    /\ operators_priors = InitialPriors
    /\ transcript = <<>>

\* one line typed, any line of Universe
Init == InitWith(Sessions(Universe, 1))

\* up to MaxLines lines typed, each of SessionInputs
InitSession == InitWith(Sessions(SessionInputs, MaxLines))

\* `s = input(...)`; 'q' breaks out of the loop, any other line starts
\* cal.eval_math_expr(s) with fresh locals
ReadInput ==
    /\ pc = "prompt"
    /\ stdin # <<>>
    /\ stdin' = Tail(stdin)
    /\ s' = Head(stdin)
    /\ pc' = IF Head(stdin) = <<"q">> THEN "done" ELSE "split"
    /\ tokens' = <<>>
    /\ postfix_expr' = <<>>
    /\ res' = NoRes
    /\ exc' = NoExc
    /\ ran' = <<>>
    /\ ops_applied' = <<>>
    /\ left_over' = 0
    /\ UNCHANGED <<operators_priors, transcript>>

\* input() at end of input raises EOFError, which no handler of the loop catches
EndOfInput ==
    /\ pc = "prompt"
    /\ stdin = <<>>
    /\ pc' = "crashed"
    /\ exc' = [kind |-> "EOFError", symbol |-> ""]
    /\ UNCHANGED <<stdin, s, tokens, postfix_expr, res, ran, ops_applied, left_over,
                   operators_priors, transcript>>

\* ctrl + C at the prompt: `except KeyboardInterrupt` breaks out of the loop
KeyboardInterrupt ==
    /\ pc = "prompt"
    /\ pc' = "done"
    /\ UNCHANGED <<stdin, s, tokens, postfix_expr, res, exc, ran, ops_applied, left_over,
                   operators_priors, transcript>>

\* SplitToTokens with a tokenizer that, on a unary minus, also raises the
\* priority of '-' in the instance's table
SplitToTokensWritingPriors ==
    /\ pc = "split"
    /\ ran' = Append(ran, "split_to_tokens")
    /\ LET r == split_to_tokens(s, operators_priors) IN
         /\ IF r.kind = "ok"
            THEN /\ tokens' = r.tokens
                 /\ pc' = "check"
                 /\ exc' = exc
            ELSE /\ exc' = [kind |-> r.kind, symbol |-> r.symbol]
                 /\ pc' = "raised"
                 /\ tokens' = tokens
         /\ operators_priors' =
                IF \E i \in 1..Len(r.tokens) : r.tokens[i] = <<"~">>
                THEN [operators_priors EXCEPT !["-"] = operators_priors["~"]]
                ELSE operators_priors
    /\ UNCHANGED <<stdin, s, postfix_expr, res, ops_applied, left_over, transcript>>

\* `tokens = self.split_to_tokens(math_expr)`
SplitToTokens ==
    /\ pc = "split"
    /\ ran' = Append(ran, "split_to_tokens")
    /\ LET r == split_to_tokens(s, operators_priors) IN
         IF r.kind = "ok"
         THEN /\ tokens' = r.tokens
              /\ pc' = "check"
              /\ exc' = exc
         ELSE /\ exc' = [kind |-> r.kind, symbol |-> r.symbol]
              /\ pc' = "raised"
              /\ tokens' = tokens
    /\ UNCHANGED <<stdin, s, postfix_expr, res, ops_applied, left_over,
                   operators_priors, transcript>>

\* `self.check_parentheses(tokens)`
CheckParentheses ==
    /\ pc = "check"
    /\ ran' = Append(ran, "check_parentheses")
    /\ LET r == check_parentheses(tokens) IN
         IF r = "ok"
         THEN /\ pc' = "convert"
              /\ exc' = exc
         ELSE /\ exc' = [kind |-> r, symbol |-> ""]
              /\ pc' = "raised"
    /\ UNCHANGED <<stdin, s, tokens, postfix_expr, res, ops_applied, left_over,
                   operators_priors, transcript>>

\* `postfix_expr = self.infix_to_postfix(tokens)`
InfixToPostfix ==
    /\ pc = "convert"
    /\ ran' = Append(ran, "infix_to_postfix")
    /\ LET r == infix_to_postfix(tokens, operators_priors) IN
         IF r.kind = "ok"
         THEN /\ postfix_expr' = r.out
              /\ pc' = "calc"
              /\ exc' = exc
         ELSE /\ exc' = [kind |-> r.kind, symbol |-> ""]
              /\ pc' = "raised"
              /\ postfix_expr' = postfix_expr
    /\ UNCHANGED <<stdin, s, tokens, res, ops_applied, left_over,
                   operators_priors, transcript>>

\* `res = self.postfix_calc(postfix_expr)`
PostfixCalc ==
    /\ pc = "calc"
    /\ ran' = Append(ran, "postfix_calc")
    /\ LET r == postfix_calc(postfix_expr) IN
         /\ ops_applied' = r.calls
         /\ left_over' = r.left
         /\ IF r.kind = "value"
            THEN /\ res' = r.val
                 /\ pc' = "print"
                 /\ exc' = exc
            ELSE /\ exc' = [kind |-> r.kind, symbol |-> ""]
                 /\ pc' = "raised"
                 /\ res' = res
    /\ UNCHANGED <<stdin, s, tokens, postfix_expr, operators_priors, transcript>>

\* `print('=', res)`, and the loop prompts again
PrintResult ==
    /\ pc = "print"
    /\ transcript' = Append(transcript, Shown(s, "value", res, ""))
    /\ pc' = "prompt"
    /\ UNCHANGED <<stdin, s, tokens, postfix_expr, res, exc, ran, ops_applied, left_over,
                   operators_priors>>

\* `except (EmptyInputError, ParenthesesError, UnexpectedInput, NothingToDoError)`
HandleCalculatorError ==
    /\ pc = "raised"
    /\ exc.kind \in TypedErrors
    /\ transcript' = Append(transcript, Shown(s, exc.kind, NoRes, exc.symbol))
    /\ pc' = "prompt"
    /\ UNCHANGED <<stdin, s, tokens, postfix_expr, res, exc, ran, ops_applied, left_over,
                   operators_priors>>

\* `except Exception`
HandleException ==
    /\ pc = "raised"
    /\ exc.kind \notin TypedErrors
    /\ IsException(exc.kind)
    /\ transcript' = Append(transcript, Shown(s, "Unexpected error", NoRes, ""))
    /\ pc' = "prompt"
    /\ UNCHANGED <<stdin, s, tokens, postfix_expr, res, exc, ran, ops_applied, left_over,
                   operators_priors>>

\* SystemExit passes both handlers and `except KeyboardInterrupt`: the
\* interpreter prints the message of sys.exit and the process ends
ProcessExit ==
    /\ pc = "raised"
    /\ exc.kind \notin TypedErrors
    /\ ~IsException(exc.kind)
    /\ transcript' = Append(transcript, Shown(s, exc.kind, NoRes, ""))
    /\ pc' = "exited"
    /\ UNCHANGED <<stdin, s, tokens, postfix_expr, res, exc, ran, ops_applied, left_over,
                   operators_priors>>

Next ==
    \/ ReadInput
    \/ EndOfInput
    \/ KeyboardInterrupt
    \/ SplitToTokens
    \/ CheckParentheses
    \/ InfixToPostfix
    \/ PostfixCalc
    \/ PrintResult
    \/ HandleCalculatorError
    \/ HandleException
    \/ ProcessExit

Spec == Init /\ [][Next]_vars

SpecSession == InitSession /\ [][Next]_vars

-----------------------------------------------------------------------------
(* What a state says about the call in progress.                           *)

\* the line as split_to_tokens scans it
Stripped == StripSpaces(s)

\* split_to_tokens has returned its token list
SplitReturned == pc = "check" \/ Len(ran) >= 2

\* check_parentheses has returned normally
CheckReturned == pc = "convert" \/ Len(ran) >= 3

\* the call has ended: eval_math_expr printed a result or an exception left it
CallEnded == pc \in {"print", "raised"}

\* the stage that ran last
LastStage == ran[Len(ran)]

-----------------------------------------------------------------------------
(* Standard infix arithmetic, by recursive descent over the characters:    *)
(*   Top  ::= ['-'] Prim ('*' Prim)* (('+' | '-') Term)*                   *)
(*   Term ::= Prim ('*' Prim)*                                             *)
(*   Prim ::= digit+ | '(' Top ')'                                         *)
(* A parse is [ok, val, pos, bin]: whether it succeeded, its value, the    *)
(* next position, and the number of binary operators it applied.           *)

RefFail == [ok |-> FALSE, val |-> 0, pos |-> 0, bin |-> 0]

RefAt(str, i) == IF i >= 1 /\ i <= Len(str) THEN str[i] ELSE ""

RECURSIVE RefDigits(_, _, _)
RefDigits(str, i, acc) ==
    IF isdigit(RefAt(str, i))
    THEN RefDigits(str, i + 1, 10 * acc + DigitVal(str[i]))
    ELSE [ok |-> TRUE, val |-> acc, pos |-> i, bin |-> 0]

RECURSIVE RefPrim(_, _), RefTermRest(_, _), RefTerm(_, _, _), RefExprRest(_, _), RefTop(_, _)

RefPrim(str, i) ==
    IF isdigit(RefAt(str, i)) THEN RefDigits(str, i, 0)
    ELSE IF RefAt(str, i) = "("
    THEN LET e == RefTop(str, i + 1)
         IN  IF e.ok /\ RefAt(str, e.pos) = ")"
             THEN [e EXCEPT !.pos = e.pos + 1]
             ELSE RefFail
    ELSE RefFail

RefTermRest(str, left) ==
    IF RefAt(str, left.pos) = "*"
    THEN LET p == RefPrim(str, left.pos + 1)
         IN  IF p.ok
             THEN RefTermRest(str, [ok |-> TRUE, val |-> left.val * p.val, pos |-> p.pos,
                                    bin |-> left.bin + p.bin + 1])
             ELSE RefFail
    ELSE left

RefTerm(str, i, signed) ==
    IF signed /\ RefAt(str, i) = "-"
    THEN LET p == RefPrim(str, i + 1)
         IN  IF p.ok THEN RefTermRest(str, [p EXCEPT !.val = 0 - p.val]) ELSE RefFail
    ELSE LET p == RefPrim(str, i)
         IN  IF p.ok THEN RefTermRest(str, p) ELSE RefFail

RefExprRest(str, left) ==
    IF RefAt(str, left.pos) \in {"+", "-"}
    THEN LET r == RefTerm(str, left.pos + 1, FALSE)
         IN  IF r.ok
             THEN RefExprRest(str,
                      [ok |-> TRUE,
                       val |-> IF str[left.pos] = "+" THEN left.val + r.val
                                                      ELSE left.val - r.val,
                       pos |-> r.pos, bin |-> left.bin + r.bin + 1])
             ELSE RefFail
    ELSE left

RefTop(str, i) ==
    LET l == RefTerm(str, i, TRUE) IN IF l.ok THEN RefExprRest(str, l) ELSE RefFail

RefParse(str) == RefTop(str, 1)

\* a well-formed expression of integer literals, + - *, parentheses and unary minus
WellFormed(str) == RefParse(str).ok /\ RefParse(str).pos = Len(str) + 1

-----------------------------------------------------------------------------
(* C1.                                                                     *)

-----------------------------------------------------------------------------
(* C2.                                                                     *)

\* the number of tokens equal to c among the first k
ParenCount(toks, c, k) == Cardinality({i \in 1..k : toks[i] = <<c>>})

\* no prefix holds more ')' than '(' and the totals agree
Balanced(toks) ==
    /\ \A k \in 0..Len(toks) : ParenCount(toks, ")", k) <= ParenCount(toks, "(", k)
    /\ ParenCount(toks, ")", Len(toks)) = ParenCount(toks, "(", Len(toks))

\* check_parentheses has just run
CheckRan == Len(ran) = 2 /\ pc \in {"convert", "raised"}

\* C2 as stated: on every token list of split_to_tokens, check_parentheses raises
\* ParenthesesError exactly when the parentheses are not balanced, returns
\* normally otherwise, and never fails in any other way.
C2_AsStated ==
    CheckRan =>
        /\ (pc = "raised" /\ exc.kind = "ParenthesesError") <=> ~Balanced(tokens)
        /\ pc = "raised" => exc.kind = "ParenthesesError"

-----------------------------------------------------------------------------
(* C3.                                                                     *)

\* postfix_calc called math_operation with '/' or ':' and a right operand of zero
DivByZeroApplied ==
    \E i \in 1..Len(ops_applied) :
        /\ ops_applied[i].op \in {<<"/">>, <<":">>}
        /\ ops_applied[i].arg2.n = 0

\* C3: once postfix evaluation has applied '/' or ':' to a zero right operand,
\* the call has produced no result, the exception in flight is SystemExit, which
\* is neither one of the typed errors nor an Exception, the loop never gets back
\* to its prompt, and nothing more happens once the process has exited.
C3_DivisionByZeroIsFatal ==
    DivByZeroApplied =>
        /\ pc \in {"raised", "exited"}
        /\ exc.kind = "SystemExit"
        /\ exc.kind \notin TypedErrors
        /\ ~IsException(exc.kind)
        /\ res = NoRes
        /\ \A i \in 1..Len(transcript) :
              transcript[i].expr = s => transcript[i].kind = "SystemExit"
        /\ pc = "exited" => ~ENABLED Next

\* 1/(0) has ended the process
C3_Witness ==
    /\ pc = "exited"
    /\ s = <<"1", "/", "(", "0", ")">>
    /\ DivByZeroApplied
    /\ CheckReturned

-----------------------------------------------------------------------------
(* C4 and C5: what the scanner finds in a line.                            *)

\* the characters split_to_tokens turns into one-character tokens
OperatorChars == {"(", ")", "+", "-", "*", "/", ":", "~"}

\* where the run of digits and points that holds position i starts
RunStart(w, i) ==
    CHOOSE j \in 1..i :
        /\ \A k \in j..i : isdigit(w[k]) \/ w[k] = "."
        /\ j = 1 \/ ~(isdigit(w[j - 1]) \/ w[j - 1] = ".")

\* w[i] is a point that belongs to no number: its run does not start with a
\* digit, or it is the third point or a later one of its run
StrayPoint(w, i) ==
    w[i] = "." /\ (~isdigit(w[RunStart(w, i)])
                     \/ CountOf(".", SubSeq(w, RunStart(w, i), i)) > 2)

\* w[i] is neither a digit, a point of a number, an operator nor a parenthesis
Unexpected(w, i) ==
    IF w[i] = "." THEN StrayPoint(w, i)
    ELSE ~isdigit(w[i]) /\ w[i] \notin OperatorChars

HasUnexpected(w) == \E i \in 1..Len(w) : Unexpected(w, i)

LeftmostUnexpected(w) ==
    w[CHOOSE i \in 1..Len(w) : Unexpected(w, i) /\ \A j \in 1..(i - 1) : ~Unexpected(w, j)]

\* the arithmetic operators of w, unary minus included, parentheses not
ArithmeticOperators(w) == {i \in 1..Len(w) : w[i] \in OperatorChars \ {"(", ")"}}

\* split_to_tokens has just run
SplitRan == Len(ran) = 1 /\ pc \in {"check", "raised"}

\* C4 as stated: split_to_tokens raises NothingToDoError exactly when the line
\* holds no unexpected symbol and no arithmetic operator, binary or unary minus
\* (so not on -5), parentheses not counting.
C4_AsStated ==
    SplitRan =>
        ((pc = "raised" /\ exc.kind = "NothingToDoError")
            <=> (~HasUnexpected(Stripped) /\ ArithmeticOperators(Stripped) = {}))

\* the whitespace of the model's alphabets
Whitespace == {" ", "\t"}

\* the line with every whitespace character removed
StripWhitespace(str) == SelectSeq(str, LAMBDA c : c \notin Whitespace)

\* the line with every ' ' removed
StripBlanks(str) == SelectSeq(str, LAMBDA c : c # " ")

\* C5 as stated: split_to_tokens raises UnexpectedInput(c) exactly when the line,
\* whitespace of any kind removed, holds an unexpected character, and c is the
\* leftmost one.
C5_AsStated ==
    SplitRan =>
        LET w == StripWhitespace(s) IN
        /\ (pc = "raised" /\ exc.kind = "UnexpectedInput") <=> HasUnexpected(w)
        /\ (pc = "raised" /\ exc.kind = "UnexpectedInput")
              => exc.symbol = LeftmostUnexpected(w)

\* C5, amended: split_to_tokens raises UnexpectedInput(c) exactly when the line,
\* its ' ' characters removed wherever they are, holds a character that is
\* neither a digit, a point of a number begun by a digit, an operator nor a
\* parenthesis, whatever else is wrong with the line; c is the leftmost such
\* character. Any other whitespace, such as a tab, is such a character.
C5_UnexpectedInput ==
    SplitRan =>
        LET w == StripBlanks(s) IN
        /\ (pc = "raised" /\ exc.kind = "UnexpectedInput") <=> HasUnexpected(w)
        /\ (pc = "raised" /\ exc.kind = "UnexpectedInput")
              => exc.symbol = LeftmostUnexpected(w)

\* a line with a blank inside it, an unbalanced parenthesis and a stray '^'
\* has been rejected for the '^'
C5_Witness ==
    /\ SplitRan
    /\ s = <<"(", " ", "^", "\t">>
    /\ pc = "raised"
    /\ exc = [kind |-> "UnexpectedInput", symbol |-> "^"]

-----------------------------------------------------------------------------
(* C6.                                                                     *)

\* the positions of w, in order
Positions(w) == [i \in 1..Len(w) |-> i]

\* the tokens the operators and parentheses of w are to become, in order
ExpectedOperatorTokens(w) ==
    LET at == SelectSeq(Positions(w), LAMBDA i : w[i] \in OperatorChars)
    IN  [k \in 1..Len(at) |->
            IF w[at[k]] = "-" /\ (at[k] = 1 \/ w[at[k] - 1] = "(")
            THEN <<"~">>
            ELSE <<w[at[k]]>>]

\* the tokens that are no numbers
OperatorTokens(toks) == SelectSeq(toks, LAMBDA tok : ~isdigit(tok[1]))

\* C6: in the token list split_to_tokens returns, a '-' is the token '~' exactly
\* when it is the first character of the stripped line or follows '(' ; every
\* other '-' and every other operator or parenthesis is a one-character token
\* equal to itself, in the order of the line.
C6_UnaryMinusTokens ==
    SplitReturned => OperatorTokens(tokens) = ExpectedOperatorTokens(Stripped)

\* 2*-3 has been split into 2, *, - and 3
C6_Witness ==
    /\ pc = "check"
    /\ s = <<"2", "*", "-", "3">>
    /\ tokens = <<<<"2">>, <<"*">>, <<"-">>, <<"3">>>>

-----------------------------------------------------------------------------
(* C7.                                                                     *)

Stages == <<"split_to_tokens", "check_parentheses", "infix_to_postfix", "postfix_calc">>

\* the parentheses of the line are not balanced
UnbalancedLine(w) ==
    LET toks == [i \in 1..Len(w) |-> <<w[i]>>] IN ~Balanced(toks)

\* the line holds a division by the literal 0
DividesByZero(w) ==
    \E i \in 1..(Len(w) - 1) : w[i] \in {"/", ":"} /\ w[i + 1] = "0"

\* the operators split_to_tokens counts: every arithmetic operator but a '-'
\* at the start of the line or right after '('
CountedOperators(w) ==
    {i \in ArithmeticOperators(w) : ~(w[i] = "-" /\ (i = 1 \/ w[i - 1] = "("))}

\* the tokenizer has something to reject in the line
TokenizerDefect(w) == HasUnexpected(w) \/ CountedOperators(w) = {}

\* C7 as stated: the stages start in the order tokenizer, validator, converter,
\* evaluator, each only after the ones before it succeeded, and the failure
\* reported is the first one; so a line with a tokenizer defect and unbalanced
\* parentheses fails with the tokenizer's error, and a line with unbalanced
\* parentheses and a division by zero fails with ParenthesesError.
C7_AsStated ==
    /\ ran = SubSeq(Stages, 1, Len(ran))
    /\ (CallEnded /\ UnbalancedLine(Stripped) /\ TokenizerDefect(Stripped))
        => (Len(ran) = 1 /\ exc.kind \in {"UnexpectedInput", "NothingToDoError"})
    /\ (CallEnded /\ SplitReturned /\ UnbalancedLine(Stripped) /\ DividesByZero(Stripped))
        => (exc.kind = "ParenthesesError" /\ Len(ran) = 2)

-----------------------------------------------------------------------------
(* C8.                                                                     *)

\* C8: whatever calls were made before, the priority table is the one __init__
\* built, a call starts with nothing of an earlier call, and a line evaluated
\* again gives what it gave before (the same value or the same error).
C8_NoStateAcrossCalls ==
    /\ operators_priors = InitialPriors
    /\ pc = "split" =>
          /\ tokens = <<>> /\ postfix_expr = <<>> /\ res = NoRes /\ exc = NoExc
          /\ ran = <<>> /\ ops_applied = <<>> /\ left_over = 0
    /\ \A i, j \in 1..Len(transcript) :
          transcript[i].expr = transcript[j].expr => transcript[i] = transcript[j]

\* 2*3-1 gave 5, -2*3 was evaluated, and 2*3-1 gave 5 again
C8_Witness ==
    /\ Len(transcript) = 3
    /\ transcript[1] = Shown(<<"2", "*", "3", "-", "1">>, "value", IntNum(5), "")
    /\ transcript[2].expr = <<"-", "2", "*", "3">>
    /\ transcript[3] = transcript[1]

-----------------------------------------------------------------------------
(* C9.                                                                     *)

\* C9 as stated: on a line that passed split_to_tokens and check_parentheses,
\* infix_to_postfix and postfix_calc never pop from an empty stack, and
\* postfix_calc returns with no operand left behind on its stack.
C9_AsStated ==
    (CallEnded /\ CheckReturned) =>
        /\ exc.kind # "IndexError"
        /\ pc = "print" => left_over = 0

-----------------------------------------------------------------------------
(* C10.                                                                    *)

\* num is the number get_number is to collect at position p of w: it starts
\* with the digit at p, holds digits and at most two points, is the text of w
\* from p on, and stops only at the end, at a third point or at another character
NumberAt(w, p, num) ==
    /\ Len(num) >= 1
    /\ num = SubSeq(w, p, p + Len(num) - 1)
    /\ isdigit(num[1])
    /\ \A i \in 1..Len(num) : isdigit(num[i]) \/ num[i] = "."
    /\ CountOf(".", num) <= 2
    /\ \/ p + Len(num) > Len(w)
       \/ /\ ~isdigit(w[p + Len(num)])
          /\ w[p + Len(num)] = "." => CountOf(".", num) = 2

TwoPoints(tok) == CountOf(".", tok) = 2

\* the line holds a literal with two points
TwoPointLiteral(w) ==
    \E p \in 1..Len(w) :
        /\ isdigit(w[p])
        /\ p = 1 \/ ~(isdigit(w[p - 1]) \/ w[p - 1] = ".")
        /\ TwoPoints(get_number(w, p))

\* C10: get_number collects, at every digit of the line, the maximal run of
\* digits with at most two points; a literal with two points is accepted by the
\* tokenizer (when the line holds no unexpected symbol and a counted operator)
\* and by the validator (when the parentheses are balanced); cast_number fails
\* on it; a ValueError comes from postfix_calc alone, on such a literal, and is
\* none of the typed errors; and a call whose tokens hold such a literal never
\* returns a value.
C10_TwoPointLiterals ==
    /\ \A p \in 1..Len(Stripped) :
          isdigit(Stripped[p]) => NumberAt(Stripped, p, get_number(Stripped, p))
    /\ SplitReturned =>
          \A i \in 1..Len(tokens) :
              /\ isdigit(tokens[i][1]) => CountOf(".", tokens[i]) <= 2
              /\ TwoPoints(tokens[i]) => cast_number(tokens[i]).kind = "ValueError"
    /\ (SplitRan /\ TwoPointLiteral(Stripped) /\ ~HasUnexpected(Stripped)
          /\ CountedOperators(Stripped) # {})
        => (pc = "check" /\ \E i \in 1..Len(tokens) : TwoPoints(tokens[i]))
    /\ (CheckRan /\ Balanced(tokens) /\ \E i \in 1..Len(tokens) : TwoPoints(tokens[i]))
        => pc = "convert"
    /\ exc.kind = "ValueError" =>
          /\ Len(ran) = 4
          /\ \E i \in 1..Len(tokens) : TwoPoints(tokens[i])
          /\ exc.kind \notin TypedErrors
          /\ IsException(exc.kind)
    /\ (SplitReturned /\ \E i \in 1..Len(tokens) : TwoPoints(tokens[i])) => pc # "print"

\* 1..2+1 passed the tokenizer, the validator and the converter and failed in
\* postfix_calc with a ValueError
C10_Witness ==
    /\ pc = "raised"
    /\ s = <<"1", ".", ".", "2", "+", "1">>
    /\ tokens = <<<<"1", ".", ".", "2">>, <<"+">>, <<"1">>>>
    /\ ran = Stages
    /\ exc.kind = "ValueError"

====
